---- MODULE Spec2Model ----
(***************************************************************************)
(* Model of the crawl coordinator (api/crawler.py) and of the video        *)
(* analysis endpoint (api/index.py) over the two tables of                 *)
(* api/logic/database.py.                                                  *)
(*                                                                         *)
(* A trigger t is one GET /crawler/scrape request together with the        *)
(* background task crawl() it may schedule and the spider run that task    *)
(* may start.  A video request v is one POST /analyze-video.               *)
(***************************************************************************)
EXTENDS Naturals, FiniteSets, Sequences, TLC

\* ------------------------------------------------------------------ bounds
NumTriggers == 2      \* trigger requests considered
MaxItems == 1         \* most items the extraction returns for one page, runs interleaved
MaxItemsRun == 2      \* most items the extraction returns for one page, one run followed
NumVideo == 2         \* analyze-video requests considered
MaxGets == 1          \* GET /analysis requests considered

\* ------------------------------------------------------- program constants
NumPages == 2         \* len(WEBSITES)

\* WEBSITES: every entry is the same URL.
Websites == [i \in 1..NumPages |-> "https://www.aldi-nord.de/"]

\* The duplicate filter of the scheduler left on.
DupeFilterOn == FALSE

\* start_requests, line 143: dont_filter=True.
DontFilter == TRUE

\* The entries of WEBSITES whose request the scheduler takes, in order: with
\* the duplicate filter on, a URL seen before is dropped.
Requested ==
  SelectSeq([i \in 1..NumPages |-> i],
            LAMBDA i : DontFilter \/ \A j \in 1..(i - 1) : Websites[j] # Websites[i])

\* response.url for entry p of WEBSITES: the URL the fetch resolved to.
ResponseUrl(p) == <<"resolved", Websites[p]>>

\* The source_url field of a FoodItem: whatever the remote model put there.
ModelUrl == <<"model">>

\* The i-th FoodItem of an answer: its name, description, price and quantity
\* (i stands for the four) and its source_url.
FoodItem(i) == [fields |-> i, source_url |-> ModelUrl]

Trig == 1..NumTriggers
Vid == 1..NumVideo

\* Row of food_items: the run that inserted it (0: a row left by an earlier
\* process), the page of WEBSITES it came from, the fields of the item it was
\* built from, its source_url.
FoodRow(t, p, i) == [run |-> t, page |-> p, item |-> i, source_url |-> ResponseUrl(p)]
StaleFood == FoodRow(0, 1, 1)
RowsOf(t) == {FoodRow(t, p, i) : p \in 1..NumPages, i \in 1..MaxItems}

\* Row of video_analyses: the request that inserted it (0: left by an earlier
\* process) and its created_at, a logical clock.
VideoRow(v, c) == [req |-> v, created |-> c]
StaleVideo == VideoRow(0, 0)
NoRow == [req |-> 0, created |-> 99]

VARIABLES
  is_crawler_running,  \* crawler.py:53, the busy flag
  pc,                  \* per trigger: where its request / crawl() / run stands
  resp,                \* per trigger: the answer of scrape_data
  page,                \* per trigger: next entry of WEBSITES its spider fetches
  sess,                \* per trigger: session of crawl(): "none", "open", "closed"
  cleanups,            \* per trigger: how often cleanup() ran for it
  food,                \* the food_items table (committed rows)
  cleared,             \* history: the run's delete of all rows was committed
  hadRows,             \* history: the table held rows when the run cleared it
  racers,              \* history: invocations that read the flag false before any of them set it
  wrote,               \* history: the run has had a row committed
  intruded,            \* history: another run committed a row since this run's delete
  vpc,                 \* per video request: where analyze_video stands
  existing,            \* per video request: existing_analysis
  video,               \* the video_analyses table (committed rows)
  vclock,              \* clock behind created_at
  lastDone,            \* history: the video request that completed last (0: none)
  latestResp,          \* the answer of the most recent GET /analysis
  gets,                \* GET /analysis requests answered so far
  apiKey,              \* crawler.py:31, index.py:27: GEMINI_API_KEY is set
  log                  \* history: what the spider did on its most recent page and so far

crawlVars == <<is_crawler_running, pc, resp, page, sess, cleanups, food, cleared, hadRows, racers, wrote, intruded, apiKey, log>>
getVars == <<latestResp, gets>>
videoVars == <<vpc, existing, video, vclock, lastDone, getVars>>
vars == <<crawlVars, videoVars>>

\* A run is active from the moment crawl() has set the flag until its cleanup.
ActivePcs == {"session", "clear", "schedule", "running"}
Active(t) == pc[t] \in ActivePcs
ActiveRuns == {t \in Trig : Active(t)}

\* What the remote model does with the text of a page, if it is asked: the
\* call raises (network, quota, schema validation), or it answers with
\* nothing parsed, or with a parsed list of n items.
NoAnswer == [kind |-> "none", n |-> 0]
RemoteAnswers(most) ==
  {[kind |-> "raise", n |-> 0], NoAnswer} \cup {[kind |-> "parsed", n |-> n] : n \in 0..most}

\* The credential check left out: the remote model is asked without a key.
ExtractFoodItemsNoKeyCheck(key, remote) ==
  [items  |-> IF remote.kind = "parsed" THEN [i \in 1..remote.n |-> FoodItem(i)] ELSE <<>>,
   called |-> TRUE,
   raised |-> FALSE]

\* The try/except left out: an exception of the remote call leaves the function.
ExtractFoodItemsNoCatch(key, remote) ==
  IF ~key
    THEN [items |-> <<>>, called |-> FALSE, raised |-> FALSE]
    ELSE [items  |-> IF remote.kind = "parsed" THEN [i \in 1..remote.n |-> FoodItem(i)] ELSE <<>>,
          called |-> TRUE,
          raised |-> remote.kind = "raise"]

\* extract_food_items(page_text): the list returned, whether the remote model
\* was called, whether an exception left the function.  Lines 80-82: no key,
\* [] at once; line 126: response.parsed or []; lines 127-129: [] on any
\* exception of the call.
ExtractFoodItems(key, remote) ==
  IF ~key
    THEN [items |-> <<>>, called |-> FALSE, raised |-> FALSE]
    ELSE [items  |-> IF remote.kind = "parsed" THEN [i \in 1..remote.n |-> FoodItem(i)] ELSE <<>>,
          called |-> TRUE,
          raised |-> FALSE]

\* The row built with the source_url the remote model returned.
BuildRowItemUrl(t, p, item) == [FoodRow(t, p, item.fields) EXCEPT !.source_url = item.source_url]

\* parse_page, lines 158-164: the row built from one item of the list.
BuildRow(t, p, item) == FoodRow(t, p, item.fields)

\* The log before the spider has fetched anything.
NoLog ==
  [page |-> 0, fetched |-> FALSE, remote |-> NoAnswer, called |-> FALSE, raised |-> FALSE,
   items |-> <<>>, committed |-> FALSE, rows |-> {},
   fetches |-> 0, entries |-> {}, calls |-> 0, failed |-> {}]

Init ==
  /\ is_crawler_running = FALSE
  /\ pc = [t \in Trig |-> "idle"]
  /\ resp = [t \in Trig |-> "none"]
  /\ page = [t \in Trig |-> 1]
  /\ sess = [t \in Trig |-> "none"]
  /\ cleanups = [t \in Trig |-> 0]
  /\ food \in {{}, {StaleFood}}
  /\ cleared = [t \in Trig |-> FALSE]
  /\ hadRows = [t \in Trig |-> FALSE]
  /\ racers = {}
  /\ wrote = [t \in Trig |-> FALSE]
  /\ intruded = [t \in Trig |-> FALSE]
  /\ vpc = [v \in Vid |-> "idle"]
  /\ existing = [v \in Vid |-> NoRow]
  /\ video \in {{}, {StaleVideo}}
  /\ vclock = 0
  /\ lastDone = 0
  /\ latestResp = [status |-> "none", row |-> NoRow]
  /\ gets = 0
  /\ apiKey \in BOOLEAN
  /\ log = NoLog

\* ------------------------------------------------------------ crawler.py

\* The endpoint without its look at the flag: every trigger is scheduled.
ScrapeDataNoCheck(t) ==
  /\ pc[t] = "idle"
  /\ IF t = 1 THEN TRUE ELSE pc[t - 1] # "idle"
  /\ resp' = [resp EXCEPT ![t] = "accepted"]
  /\ pc' = [pc EXCEPT ![t] = "scheduled"]
  /\ UNCHANGED <<is_crawler_running, page, sess, cleanups, food, cleared, hadRows, racers, wrote, intruded>>
  /\ UNCHANGED <<apiKey, log, videoVars>>

\* scrape_data: one step of the event loop (the coroutine has no await).
\* Triggers are numbered in the order they arrive.
ScrapeData(t) ==
  /\ pc[t] = "idle"
  /\ IF t = 1 THEN TRUE ELSE pc[t - 1] # "idle"
  /\ IF is_crawler_running
       THEN /\ resp' = [resp EXCEPT ![t] = "already"]
            /\ pc' = [pc EXCEPT ![t] = "refused"]
       ELSE /\ resp' = [resp EXCEPT ![t] = "accepted"]
            /\ pc' = [pc EXCEPT ![t] = "scheduled"]
  /\ UNCHANGED <<is_crawler_running, page, sess, cleanups, food, cleared, hadRows, racers, wrote, intruded>>
  /\ UNCHANGED <<apiKey, log, videoVars>>

\* cleanup(result): the flag is reset and the session of this crawl() closed.
CleanupEffect(t) ==
  /\ is_crawler_running' = FALSE
  /\ sess' = [sess EXCEPT ![t] = "closed"]
  /\ cleanups' = [cleanups EXCEPT ![t] = @ + 1]

\* crawl(), line 173: the read of the flag by the thread running the task.
CrawlCheck(t) ==
  /\ pc[t] = "scheduled"
  /\ pc' = [pc EXCEPT ![t] = IF is_crawler_running THEN "noop" ELSE "set"]
  /\ UNCHANGED <<is_crawler_running, resp, page, sess, cleanups, food, cleared, hadRows, racers, wrote, intruded>>
  /\ UNCHANGED <<apiKey, log, videoVars>>

\* A compare-and-set in place of the plain store.
CrawlSetAtomic(t) ==
  /\ pc[t] = "set"
  /\ IF is_crawler_running
       THEN /\ pc' = [pc EXCEPT ![t] = "noop"]
            /\ UNCHANGED is_crawler_running
       ELSE /\ pc' = [pc EXCEPT ![t] = "session"]
            /\ is_crawler_running' = TRUE
  /\ UNCHANGED <<resp, page, sess, cleanups, food, cleared, hadRows, racers, wrote, intruded>>
  /\ UNCHANGED <<apiKey, log, videoVars>>

\* crawl(), line 175: the store to the flag.
CrawlSet(t) ==
  /\ pc[t] = "set"
  /\ is_crawler_running' = TRUE
  /\ pc' = [pc EXCEPT ![t] = "session"]
  /\ racers' = IF \E u \in Trig \ {t} : pc[u] = "set"
                 THEN racers \cup {u \in Trig : pc[u] = "set"}
                 ELSE racers
  /\ UNCHANGED <<resp, page, sess, cleanups, food, cleared, hadRows, wrote, intruded>>
  /\ UNCHANGED <<apiKey, log, videoVars>>

\* The store without the check before it.
CrawlSetNoCheck(t) ==
  /\ pc[t] = "scheduled"
  /\ is_crawler_running' = TRUE
  /\ pc' = [pc EXCEPT ![t] = "session"]
  /\ UNCHANGED <<resp, page, sess, cleanups, food, cleared, hadRows, racers, wrote, intruded>>
  /\ UNCHANGED <<apiKey, log, videoVars>>

\* crawl(), lines 173-175 run without another thread in between.
CrawlCheckAndSet(t) ==
  /\ pc[t] = "scheduled"
  /\ IF is_crawler_running
       THEN /\ pc' = [pc EXCEPT ![t] = "noop"]
            /\ UNCHANGED is_crawler_running
       ELSE /\ pc' = [pc EXCEPT ![t] = "session"]
            /\ is_crawler_running' = TRUE
  /\ UNCHANGED <<resp, page, sess, cleanups, food, cleared, hadRows, racers, wrote, intruded>>
  /\ UNCHANGED <<apiKey, log, videoVars>>

\* crawl(), line 176: session = get_session(), before the try block.  When it
\* raises, the exception leaves crawl() with no handler run.
GetSession(t) ==
  /\ pc[t] = "session"
  /\ \E ok \in BOOLEAN :
       IF ok
         THEN /\ sess' = [sess EXCEPT ![t] = "open"]
              /\ pc' = [pc EXCEPT ![t] = "clear"]
         ELSE /\ pc' = [pc EXCEPT ![t] = "raised"]
              /\ UNCHANGED sess
  /\ UNCHANGED <<is_crawler_running, resp, page, cleanups, food, cleared, hadRows, racers, wrote, intruded>>
  /\ UNCHANGED <<apiKey, log, videoVars>>

\* The clear left out: the spider is scheduled over the rows of earlier runs.
ClearTableSkipped(t) ==
  /\ pc[t] = "clear"
  /\ pc' = [pc EXCEPT ![t] = "schedule"]
  /\ cleared' = [cleared EXCEPT ![t] = TRUE]
  /\ hadRows' = [hadRows EXCEPT ![t] = food # {}]
  /\ intruded' = [intruded EXCEPT ![t] = FALSE]
  /\ UNCHANGED <<is_crawler_running, resp, page, sess, cleanups, food, racers, wrote>>
  /\ UNCHANGED <<apiKey, log, videoVars>>

\* crawl(), lines 206-207: delete every row and commit; lines 214-217 when
\* that raises: cleanup(None), then the exception is re-raised.
ClearTable(t) ==
  /\ pc[t] = "clear"
  /\ \E ok \in BOOLEAN :
       IF ok
         THEN /\ food' = {}
              /\ cleared' = [cleared EXCEPT ![t] = TRUE]
              /\ hadRows' = [hadRows EXCEPT ![t] = food # {}]
              /\ intruded' = [intruded EXCEPT ![t] = FALSE]
              /\ pc' = [pc EXCEPT ![t] = "schedule"]
              /\ UNCHANGED <<is_crawler_running, sess, cleanups>>
         ELSE /\ CleanupEffect(t)
              /\ pc' = [pc EXCEPT ![t] = "raised"]
              /\ UNCHANGED <<food, cleared, hadRows, intruded>>
  /\ UNCHANGED <<resp, page, racers, wrote>>
  /\ UNCHANGED <<apiKey, log, videoVars>>

\* crawl(), lines 210-213: create the crawler, runner.crawl, addBoth(cleanup);
\* lines 214-217 when creating or scheduling raises.
ScheduleSpider(t) ==
  /\ pc[t] = "schedule"
  /\ \E ok \in BOOLEAN :
       IF ok
         THEN /\ pc' = [pc EXCEPT ![t] = "running"]
              /\ UNCHANGED <<is_crawler_running, sess, cleanups>>
         ELSE /\ CleanupEffect(t)
              /\ pc' = [pc EXCEPT ![t] = "raised"]
  /\ UNCHANGED <<resp, page, food, cleared, hadRows, racers, wrote, intruded>>
  /\ UNCHANGED <<apiKey, log, videoVars>>

\* The run given up at the first request that fails.
FetchFailAborts(t) ==
  /\ pc[t] = "running"
  /\ page[t] <= Len(Requested)
  /\ page' = [page EXCEPT ![t] = Len(Requested) + 1]
  /\ UNCHANGED <<is_crawler_running, pc, resp, sess, cleanups, food, cleared, hadRows, racers, wrote, intruded>>
  /\ UNCHANGED <<apiKey, videoVars>>

\* A request of start_requests fails in the downloader for good: parse_page
\* is not called for it and the spider goes on with the next request.
FetchFailStep(t) ==
  /\ pc[t] = "running"
  /\ page[t] <= Len(Requested)
  /\ page' = [page EXCEPT ![t] = @ + 1]
  /\ UNCHANGED <<is_crawler_running, pc, resp, sess, cleanups, food, cleared, hadRows, racers, wrote, intruded>>
  /\ UNCHANGED <<apiKey, videoVars>>

FetchFail(t) == FetchFailStep(t) /\ UNCHANGED log

\* The same step with the log kept.
FetchFailLogged(t) ==
  /\ FetchFailStep(t)
  /\ log' = [NoLog EXCEPT !.page = Requested[page[t]],
                          !.fetches = log.fetches + 1,
                          !.entries = log.entries \cup {Requested[page[t]]},
                          !.calls = log.calls,
                          !.failed = log.failed \cup {Requested[page[t]]}]

\* The rows parse_page builds from the list extract_food_items returned.
PageRows(t, p, items) == {BuildRow(t, p, items[i]) : i \in 1..Len(items)}

\* FoodCrawler.parse_page on the response for the request at hand, the remote
\* model answering with remote: the rows of the extracted items are added to a
\* session of its own and committed in one commit (line 166).  When
\* get_session() or the commit raises (ok false) nothing is stored; Scrapy
\* logs an exception of a callback and goes on with the next request.
ParsePageStep(t, remote, ok) ==
  LET r == ExtractFoodItems(apiKey, remote)
      rows == PageRows(t, Requested[page[t]], r.items)
      stored == ok /\ ~r.raised
  IN /\ pc[t] = "running"
     /\ page[t] <= Len(Requested)
     /\ food' = IF stored THEN food \cup rows ELSE food
     /\ wrote' = [wrote EXCEPT ![t] = @ \/ (stored /\ rows # {})]
     /\ intruded' = [u \in Trig |->
          intruded[u] \/ (u # t /\ stored /\ rows # {} /\ pc[u] \in {"schedule", "running"})]
     /\ page' = [page EXCEPT ![t] = @ + 1]
     /\ UNCHANGED <<is_crawler_running, pc, resp, sess, cleanups, cleared, hadRows, racers>>
     /\ UNCHANGED <<apiKey, videoVars>>

ParsePage(t) ==
  \E remote \in RemoteAnswers(MaxItems), ok \in BOOLEAN :
    ParsePageStep(t, remote, ok) /\ UNCHANGED log

\* The same step with the log kept.
ParsePageLogged(t) ==
  \E remote \in RemoteAnswers(MaxItemsRun), ok \in BOOLEAN :
    LET r == ExtractFoodItems(apiKey, remote)
        p == Requested[page[t]]
        stored == ok /\ ~r.raised
    IN /\ ParsePageStep(t, remote, ok)
       /\ log' = [page |-> p, fetched |-> TRUE, remote |-> remote,
                  called |-> r.called, raised |-> r.raised, items |-> r.items,
                  committed |-> stored,
                  rows |-> IF stored THEN PageRows(t, p, r.items) ELSE {},
                  fetches |-> log.fetches + 1,
                  entries |-> log.entries \cup {p},
                  calls |-> log.calls + (IF r.called THEN 1 ELSE 0),
                  failed |-> log.failed \cup
                               (IF ~stored \/ (r.called /\ remote.kind = "raise") THEN {p} ELSE {})]

\* The deferred of runner.crawl fires once the spider has no request left:
\* cleanup(result), added with addBoth.
Cleanup(t) ==
  /\ pc[t] = "running"
  /\ page[t] > Len(Requested)
  /\ CleanupEffect(t)
  /\ pc' = [pc EXCEPT ![t] = "finished"]
  /\ UNCHANGED <<resp, page, food, cleared, hadRows, racers, wrote, intruded>>
  /\ UNCHANGED <<apiKey, log, videoVars>>

\* The steps of crawl() after the flag is set and of the run it starts.
RunStep(t) ==
  \/ GetSession(t)
  \/ ClearTable(t)
  \/ ScheduleSpider(t)
  \/ FetchFail(t)
  \/ ParsePage(t)
  \/ Cleanup(t)

NextCrawl ==
  \E t \in Trig :
    \/ ScrapeData(t)
    \/ CrawlCheck(t)
    \/ CrawlSet(t)
    \/ RunStep(t)

NextCrawlSerial ==
  \E t \in Trig :
    \/ ScrapeData(t)
    \/ CrawlCheckAndSet(t)
    \/ RunStep(t)

SpecCrawl == Init /\ [][NextCrawl]_vars
SpecCrawlSerial == Init /\ [][NextCrawlSerial]_vars

\* One trigger and the run it starts, followed page by page with the log kept.
NextOneRun ==
  \E t \in {1} :
    \/ ScrapeData(t)
    \/ CrawlCheckAndSet(t)
    \/ GetSession(t)
    \/ ClearTable(t)
    \/ ScheduleSpider(t)
    \/ FetchFailLogged(t)
    \/ ParsePageLogged(t)
    \/ Cleanup(t)

SpecOneRun == Init /\ [][NextOneRun]_vars

\* -------------------------------------------------------------- index.py

NoVideoInFlight == \A u \in Vid : vpc[u] \in {"idle", "done", "failed"}

\* The ordering turned round: the oldest row instead of the newest.
Oldest(rows) ==
  IF rows = {} THEN NoRow
  ELSE CHOOSE r \in rows : \A q \in rows : q.created >= r.created

\* select(VideoAnalysis).order_by(desc(created_at)).limit(1), first()
Latest(rows) ==
  IF rows = {} THEN NoRow
  ELSE CHOOSE r \in rows : \A q \in rows : q.created <= r.created

\* analyze_video, lines 73-113: the credential and content-type checks and
\* the remote call; any of them raising ends the request before the table is
\* touched.  Requests are numbered in the order they arrive.
AnalyzeStart(v) ==
  /\ vpc[v] = "idle"
  /\ IF v = 1 THEN TRUE ELSE vpc[v - 1] # "idle"
  /\ \E ok \in BOOLEAN :
       vpc' = [vpc EXCEPT ![v] = IF apiKey /\ ok THEN "select" ELSE "failed"]
  /\ UNCHANGED <<existing, video, vclock, lastDone>>
  /\ UNCHANGED getVars
  /\ UNCHANGED crawlVars

\* analyze_video, lines 114-118: the newest row, if any, is read.
SelectExisting(v) ==
  /\ vpc[v] = "select"
  /\ existing' = [existing EXCEPT ![v] = Latest(video)]
  /\ vpc' = [vpc EXCEPT ![v] = IF video = {} THEN "insert" ELSE "delete"]
  /\ UNCHANGED <<video, vclock, lastDone>>
  /\ UNCHANGED getVars
  /\ UNCHANGED crawlVars

\* The delete left out.
DeleteExistingSkipped(v) ==
  /\ vpc[v] = "delete"
  /\ vpc' = [vpc EXCEPT ![v] = "insert"]
  /\ UNCHANGED <<existing, video, vclock, lastDone>>
  /\ UNCHANGED getVars
  /\ UNCHANGED crawlVars

\* analyze_video, lines 119-120: the row read is deleted and the delete
\* committed; a delete that matches no row any more changes nothing.  When the
\* commit raises the request ends and the table is as it was.
DeleteExisting(v) ==
  /\ vpc[v] = "delete"
  /\ \E ok \in BOOLEAN :
       IF ok
         THEN /\ video' = video \ {existing[v]}
              /\ vpc' = [vpc EXCEPT ![v] = "insert"]
         ELSE /\ vpc' = [vpc EXCEPT ![v] = "failed"]
              /\ UNCHANGED video
  /\ UNCHANGED <<existing, vclock, lastDone>>
  /\ UNCHANGED getVars
  /\ UNCHANGED crawlVars

\* analyze_video, lines 121-128: the new row is added and committed, its
\* created_at taken at the insert.  When the commit raises the request ends
\* with no row added.
InsertAnalysis(v) ==
  /\ vpc[v] = "insert"
  /\ \E ok \in BOOLEAN :
       IF ok
         THEN /\ video' = video \cup {VideoRow(v, vclock + 1)}
              /\ vclock' = vclock + 1
              /\ vpc' = [vpc EXCEPT ![v] = "refresh"]
         ELSE /\ vpc' = [vpc EXCEPT ![v] = "failed"]
              /\ UNCHANGED <<video, vclock>>
  /\ UNCHANGED <<existing, lastDone>>
  /\ UNCHANGED getVars
  /\ UNCHANGED crawlVars

\* analyze_video, lines 129-132: refresh, the temporary file is removed and
\* the meal plan returned.
ReturnPlan(v) ==
  /\ vpc[v] = "refresh"
  /\ vpc' = [vpc EXCEPT ![v] = "done"]
  /\ lastDone' = v
  /\ UNCHANGED <<existing, video, vclock>>
  /\ UNCHANGED getVars
  /\ UNCHANGED crawlVars

\* get_latest_analysis: the newest row is read; not found when there is none,
\* else its analysis_text is returned.  Nothing is written.
GetLatestAnalysis ==
  /\ gets < MaxGets
  /\ gets' = gets + 1
  /\ latestResp' = IF Latest(video) = NoRow
                     THEN [status |-> "notfound", row |-> NoRow]
                     ELSE [status |-> "ok", row |-> Latest(video)]
  /\ UNCHANGED <<vpc, existing, video, vclock, lastDone>>
  /\ UNCHANGED crawlVars

\* A request that starts only when no other one is between its start and its
\* return.
AnalyzeStartSerial(v) ==
  /\ NoVideoInFlight
  /\ AnalyzeStart(v)

VideoStep(v) ==
  \/ SelectExisting(v)
  \/ DeleteExisting(v)
  \/ InsertAnalysis(v)
  \/ ReturnPlan(v)

NextVideo ==
  \/ \E v \in Vid : AnalyzeStart(v) \/ VideoStep(v)
  \/ GetLatestAnalysis

NextVideoSerial ==
  \/ \E v \in Vid : AnalyzeStartSerial(v) \/ VideoStep(v)
  \/ GetLatestAnalysis

SpecVideo == Init /\ [][NextVideo]_vars
SpecVideoSerial == Init /\ [][NextVideoSerial]_vars

\* The whole program: triggers, crawl() threads, spider runs and video
\* requests interleaved.
Next == NextCrawl \/ NextVideo
Spec == Init /\ [][Next]_vars

\* ------------------------------------------------------ claims, crawler

\* C1: with the check and the store of crawl() run as one step, at most one
\* crawl run is active in every reachable state: a trigger that finds the
\* flag set starts no second run.
C1_AtMostOneActiveRun ==
  /\ Cardinality(ActiveRuns) <= 1
  /\ \A t \in Trig : resp[t] = "already" => pc[t] = "refused"

\* C1 witness: a run is active and another trigger has been turned away, by
\* the endpoint or by crawl() itself.
C1_Witness ==
  \E t \in Trig, u \in Trig :
    /\ t # u
    /\ Active(u)
    /\ is_crawler_running
    /\ pc[t] \in {"noop", "refused"}

\* C2: the check and the store are two steps: an invocation that has read the
\* flag as false stores true and starts its run whatever another thread has
\* stored in between.
C2_CheckThenSetNotAtomic ==
  [][\A t \in Trig :
       (pc[t] = "set" /\ pc'[t] # "set")
         => (pc'[t] = "session" /\ is_crawler_running')]_vars

\* C2 witness: two invocations both read the flag as false before either
\* stored it, and their two runs are active together.
C2_TwoRunsActive ==
  \E t \in racers, u \in racers :
    /\ t # u
    /\ Active(t)
    /\ Active(u)
    /\ pc[t] = "running"
    /\ pc[u] = "running"

\* C3: for every invocation that set the flag and has ended, cleanup ran
\* exactly once and left no session open.
C3_CleanupExactlyOnce ==
  \A t \in Trig :
    pc[t] \in {"raised", "finished"} => (cleanups[t] = 1 /\ sess[t] # "open")

\* C4: whenever a step of run setup raises after the flag was set, the flag is
\* false and the session closed at the moment the error leaves crawl().
C4_SetupFailureCleansUp ==
  [][\A t \in Trig :
       (pc[t] # "raised" /\ pc'[t] = "raised")
         => (~is_crawler_running' /\ sess'[t] # "open")]_vars

\* The step in which run t has its first row committed.
FirstWrite(t) == ~wrote[t] /\ wrote'[t]

\* C5 as stated: the table is empty at the moment a run writes its first item.
C5_TableEmptyAtFirstWrite ==
  [][\A t \in Trig : FirstWrite(t) => (cleared[t] /\ food = {})]_vars

\* The step in which cleanup runs for t.
JustCompleted(t) == cleanups'[t] = cleanups[t] + 1

C10_TriggerAnswer ==
  [][\A t \in Trig :
       /\ (resp[t] = "none" /\ resp'[t] # "none")
            => IF is_crawler_running
                 THEN resp'[t] = "already" /\ pc'[t] = "refused"
                 ELSE resp'[t] = "accepted" /\ pc'[t] = "scheduled"
       /\ pc[t] = "refused" => pc'[t] = "refused"
       /\ pc'[t] \notin {"idle", "refused", "scheduled"} => resp[t] = "accepted"]_vars

\* C10 witness: one trigger was accepted and its run is still going, another
\* was answered "already running".
C10_Witness ==
  \E t \in Trig, u \in Trig :
    /\ resp[t] = "accepted"
    /\ pc[t] = "running"
    /\ resp[u] = "already"
    /\ pc[u] = "refused"

\* -------------------------------------------------------- claims, video

AllReturned == \A v \in Vid : vpc[v] \in {"idle", "done"}

\* C7: with analyze-video requests run one after another the table never
\* holds more than one row, and after a sequence of requests that all
\* succeeded it holds exactly the row of the last one.
C7_SingleRowSerial ==
  /\ Cardinality(video) <= 1
  /\ (AllReturned /\ lastDone # 0)
       => \E r \in video : video = {r} /\ r.req = lastDone

\* C7 witness: two requests have succeeded one after the other and the row of
\* the second is the only one.
C7_Witness ==
  \E v \in Vid, u \in Vid :
    /\ v # u
    /\ vpc[v] = "done"
    /\ vpc[u] = "done"
    /\ lastDone = u
    /\ \E r \in video : video = {r} /\ r.req = u /\ r.created >= 2

\* C8: after concurrent analyze-video requests have all completed the table
\* holds exactly one row.
C8_OneRowAfterConcurrent ==
  (AllReturned /\ lastDone # 0) => Cardinality(video) = 1

\* C9: the delete of the prior row and the insert of the new one take effect
\* together: while a request that read a prior row has not had its insert
\* committed, and after it failed before that, the prior row is stored.
C9_ReplaceAtomic ==
  \A v \in Vid :
    (vpc[v] \in {"delete", "insert", "failed"} /\ existing[v] # NoRow)
      => existing[v] \in video

\* ------------------------------------------- claims, flag and triggers

\* C18: the flag is true whenever a crawl run is active, so no trigger is
\* accepted and the status is never false while a run fetches or writes.
C18_FlagCoversActiveRuns ==
  \A t \in Trig : Active(t) => is_crawler_running

\* C19 as stated: the crawl() of an accepted trigger never turns into a no-op.
C19_AcceptedAlwaysRuns ==
  \A t \in Trig : resp[t] = "accepted" => pc[t] # "noop"

\* C19 amended: the crawl() of an accepted trigger starts a run of its own
\* exactly when the flag is still false as it executes; when another
\* trigger's crawl() has set the flag since the endpoint looked, it returns
\* the already-running message and starts nothing.
C19_AcceptedRunsUnlessFlagSet ==
  [][\A t \in Trig :
       (pc[t] = "scheduled" /\ pc'[t] # "scheduled")
         => /\ resp[t] = "accepted"
            /\ is_crawler_running => (pc'[t] = "noop" /\ cleanups'[t] = 0)
            /\ ~is_crawler_running => pc'[t] \in {"set", "session"}]_vars

\* C19 witness: an accepted trigger whose crawl() became a no-op while the
\* run of another accepted trigger is active.
C19_Witness ==
  \E t \in Trig, u \in Trig :
    /\ t # u
    /\ resp[t] = "accepted"
    /\ pc[t] = "noop"
    /\ resp[u] = "accepted"
    /\ Active(u)

\* C16: GET /analysis answers not found exactly when the table is empty,
\* else with the newest stored row, and leaves the table as it is.
C16_LatestAnalysis ==
  [][gets' = gets + 1
       => /\ latestResp'.status = "notfound" <=> video = {}
          /\ video # {}
               => /\ latestResp'.status = "ok"
                  /\ latestResp'.row \in video
                  /\ \A q \in video : q.created <= latestResp'.row.created
          /\ video' = video]_vars

\* C16 witness: the request was answered with the newer of two stored rows.
C16_Witness ==
  /\ gets > 0
  /\ latestResp.status = "ok"
  /\ \E q \in video : q.created < latestResp.row.created

\* ------------------------------------------- claims, pages of one run

\* The step in which the spider is done with one request, fetched or not.
PageDone == log'.fetches = log.fetches + 1

\* C11: with no credential configured extract_food_items returns the empty
\* list and the remote model is never called, whatever the page text would
\* have made the model answer.
C11_NoKeyNoRemoteCall ==
  ~apiKey => /\ log.calls = 0
             /\ ~log.called
             /\ ~log.raised
             /\ log.items = <<>>
             /\ log.rows = {}

\* C11 witness: a page was fetched for whose text the model would have
\* answered with items, and without a key nothing was asked and nothing came
\* back.
C11_Witness ==
  /\ ~apiKey
  /\ log.fetched
  /\ log.remote.kind = "parsed"
  /\ log.remote.n > 0
  /\ log.items = <<>>
  /\ log.calls = 0

\* C12: when the remote call raises or yields nothing parsed,
\* extract_food_items returns the empty list and no exception leaves it:
\* parse_page stores no row for the page and the run goes on with the next
\* request.
C12_RemoteFailureGivesNoItems ==
  [][(PageDone /\ log'.called /\ log'.remote.kind \in {"raise", "none"})
       => /\ log'.items = <<>>
          /\ ~log'.raised
          /\ log'.rows = {}
          /\ food' = food
          /\ pc' = pc
          /\ pc[1] = "running"
          /\ page'[1] = page[1] + 1
          /\ is_crawler_running' = is_crawler_running]_vars

\* C12 witness: the remote call raised on the first page and the run stands
\* at its second request with nothing stored.
C12_Witness ==
  /\ apiKey
  /\ log.called
  /\ log.remote.kind = "raise"
  /\ log.items = <<>>
  /\ log.page = 1
  /\ pc[1] = "running"
  /\ page[1] = 2
  /\ food = {}

\* C13: a run has issued one fetch per request it is done with, and a
\* completed run exactly one for every entry of WEBSITES, entries with the
\* same URL included.
C13_OneFetchPerEntry ==
  /\ pc[1] = "running" => log.fetches = page[1] - 1
  /\ pc[1] = "finished" => /\ log.fetches = NumPages
                           /\ log.entries = 1..NumPages

\* C13 witness: a run over a list that holds the same URL twice has completed
\* with no request failed and one fetch per entry.
C13_Witness ==
  /\ pc[1] = "finished"
  /\ log.failed = {}
  /\ log.fetches = NumPages
  /\ \E i \in 1..NumPages, j \in 1..NumPages : i # j /\ Websites[i] = Websites[j]

\* C14: no request, failed or not, ends the run: the spider goes on with the
\* next request with the flag and the stored rows as they were, the rows of a
\* page whose commit succeeded are stored, and the run ends only after every
\* entry was fetched, with its one cleanup resetting the flag.
C14_FailureDoesNotAbort ==
  [][/\ PageDone
          => /\ pc' = pc
             /\ pc[1] = "running"
             /\ page'[1] = page[1] + 1
             /\ is_crawler_running' = is_crawler_running
             /\ food \subseteq food'
             /\ log'.committed
                  => /\ log'.rows = PageRows(1, log'.page, log'.items)
                     /\ log'.rows \subseteq food'
     /\ (pc[1] = "running" /\ pc'[1] # "running")
          => /\ pc'[1] = "finished"
             /\ log.entries = 1..NumPages
             /\ ~is_crawler_running'
             /\ cleanups'[1] = 1]_vars

\* C14 witness: the first request failed, the items of the second page were
\* stored, and the run has ended with the flag reset.
C14_Witness ==
  /\ pc[1] = "finished"
  /\ ~is_crawler_running
  /\ 1 \in log.failed
  /\ log.page = 2
  /\ log.committed
  /\ log.rows # {}
  /\ log.rows \subseteq food

\* C15 as stated: for every fetched page whose extraction returned k items,
\* exactly k rows are inserted.
C15_ExactlyKRows ==
  [][(PageDone /\ log'.fetched)
       => Cardinality(food' \ food) = Len(log'.items)]_vars

\* C15 amended: for every fetched page whose extraction returned k items and
\* whose session and commit did not raise, exactly k rows are inserted, one
\* per item, each with the URL of the response as source_url and the fields
\* of its item; when they raise none of the k rows is stored; with k = 0 no
\* row is inserted; in every case the run goes on.
C15_ExactlyKRowsIfCommitted ==
  [][(PageDone /\ log'.fetched)
       => /\ log'.committed
               => /\ Cardinality(food' \ food) = Len(log'.items)
                  /\ \A i \in 1..Len(log'.items) :
                       \E r \in food' \ food :
                         /\ r.item = log'.items[i].fields
                         /\ r.source_url = ResponseUrl(log'.page)
                  /\ \A r \in food' \ food : r.source_url = ResponseUrl(log'.page)
          /\ ~log'.committed => food' = food
          /\ Len(log'.items) = 0 => food' = food
          /\ pc' = pc
          /\ page'[1] = page[1] + 1]_vars

\* C15 witness: a page with two items had its two rows stored and the run
\* has completed.
C15_Witness ==
  /\ pc[1] = "finished"
  /\ log.fetched
  /\ log.committed
  /\ Len(log.items) = 2
  /\ Cardinality(log.rows) = 2
  /\ log.rows \subseteq food

\* C17: items are committed one by one: no step makes more than one row
\* visible to the results endpoint.
C17_OneCommitPerItem ==
  [][Cardinality(food' \ food) <= 1]_vars

====
